---- MODULE Spec2Model ----
(***************************************************************************)
(* Surfactant: the CycloneDX writer (surfactant/output/cyclonedx_writer.py) *)
(* as a state machine.  write_sbom walks the systems, the software entries  *)
(* and the edges of the relationship graph, filling a Bom, and writes the   *)
(* serialized document to the output file.                                  *)
(*                                                                          *)
(* Every Python str is a sequence of one-character strings, so that         *)
(* str.upper, pathlib.PurePath(...).parts and "/".join are computed.        *)
(* None is a one-element sequence whose element is no character.            *)
(***************************************************************************)
EXTENDS Integers, Sequences, FiniteSets, TLC

VARIABLES
    sbom,                           \* the SBOM handed to write_sbom (systems, software, graph edges)
    given,                          \* the SBOM as it was when write_sbom was called
    pc,                             \* the loop of write_sbom that is running
    i,                              \* position in the list that loop iterates
    bom_components,                 \* bom.components
    bom_dependencies,               \* bom.dependencies
    container_path_relationships,   \* child UUID -> parent UUID taken from a container path
    cdx_rels,                       \* parent UUID -> the children of its Dependency
    outfile,                        \* what has been written to outfile
    stored,                         \* regressions.py: the folders file handed from one CI run to the next
    data_folders,                   \* regressions.py: the names of the folders under tests/data
    generated,                      \* regressions.py: what generate_sbom_string did for each folder
    results,                        \* regressions.py: test_gha's results of the last run
    summary,                        \* regressions.py: the sections of the summary of the last run
    runs                            \* regressions.py: the CI runs so far

writer_vars == <<sbom, given, pc, i, bom_components, bom_dependencies,
                 container_path_relationships, cdx_rels, outfile>>

gha_vars == <<stored, data_folders, generated, results, summary, runs>>

vars == <<writer_vars, gha_vars>>

\* ---------------------------------------------------------------- bounds
MaxEdges == 2
MaxPaths == 2
MaxNames == 2

\* ---------------------------------------------------------------- strings
None == <<"None">>

Truthy(x) == x # None /\ x # <<>>

LowerCase == <<"a","b","c","d","e","f","g","h","i","j","k","l","m",
               "n","o","p","q","r","s","t","u","v","w","x","y","z">>

UpperCase == <<"A","B","C","D","E","F","G","H","I","J","K","L","M",
               "N","O","P","Q","R","S","T","U","V","W","X","Y","Z">>

ToUpper ==
    [c \in {LowerCase[k] : k \in 1..Len(LowerCase)} |->
        UpperCase[CHOOSE k \in 1..Len(LowerCase) : LowerCase[k] = c]]

upper_char(c) == IF c \in DOMAIN ToUpper THEN ToUpper[c] ELSE c

upper(s) == [k \in 1..Len(s) |-> upper_char(s[k])]

CONTAINS == <<"C","O","N","T","A","I","N","S">>
USES == <<"U","S","E","S">>
DEPENDS_ON == <<"D","E","P","E","N","D","S","_","O","N">>
REQUIRES == <<"R","E","Q","U","I","R","E","S">>

Unscoped == "unscoped"
Runtime == "runtime"
Unknown == "unknown"

\* ---------------------------------------------------------------- pathlib
RECURSIVE split(_, _, _)
split(s, k, cur) ==
    LET done == IF cur = <<>> THEN <<>> ELSE <<cur>>
    IN  IF k > Len(s) THEN done
        ELSE IF s[k] = "/" THEN done \o split(s, k + 1, <<>>)
        ELSE split(s, k + 1, Append(cur, s[k]))

\* PurePosixPath(s).parts: the root, then the segments that are neither empty nor "."
parts(s) ==
    LET root == IF Len(s) >= 2 /\ s[1] = "/" /\ s[2] = "/" /\ (Len(s) = 2 \/ s[3] # "/")
                THEN << <<"/", "/">> >>
                ELSE IF Len(s) >= 1 /\ s[1] = "/" THEN << <<"/">> >>
                ELSE <<>>
    IN  root \o SelectSeq(split(s, 1, <<>>), LAMBDA seg : seg # <<".">>)

RECURSIVE join(_)
join(ps) ==
    IF Len(ps) = 0 THEN <<>>
    ELSE IF Len(ps) = 1 THEN ps[1]
    ELSE ps[1] \o <<"/">> \o join(Tail(ps))

\* ---------------------------------------------------------------- the graph
\* sbom.get_children(uuid, rel_type): the children of uuid over edges of that relation
get_children(edges, uuid, rel_type) ==
    {edges[k][2] : k \in {j \in 1..Len(edges) :
                            edges[j][1] = uuid /\ upper(edges[j][3]) = upper(rel_type)}}

Contains == <<"C","o","n","t","a","i","n","s">>

\* ---------------------------------------------------------------- components
CONTAINER == "container"
FILE == "file"

NoHashes == [isNone |-> TRUE, list |-> <<>>]

supplier_of(vendor) == IF vendor # <<>> THEN vendor[1] ELSE None

convert_system_to_cyclonedx_component(system) ==
    LET name == IF ~Truthy(system.officialName) /\ Truthy(system.name)
                THEN system.name ELSE system.officialName
    IN  [bom_ref |-> system.UUID, name |-> name, version |-> None,
         supplier |-> supplier_of(system.vendor), description |-> system.description,
         hashes |-> NoHashes, copyright |-> None, type |-> CONTAINER]

\* container_hashes without the replacement of an empty list by None
container_hashes_keep_empty(software) ==
    [isNone |-> FALSE,
     list |-> (IF Truthy(software.sha1)
               THEN <<[alg |-> "SHA-1", content |-> software.sha1]>> ELSE <<>>)
           \o (IF Truthy(software.sha256)
               THEN <<[alg |-> "SHA-256", content |-> software.sha256]>> ELSE <<>>)
           \o (IF Truthy(software.md5)
               THEN <<[alg |-> "MD5", content |-> software.md5]>> ELSE <<>>)]

\* the hashes of a container component: None when the list stays empty
container_hashes(software) ==
    LET hashes == (IF Truthy(software.sha1)
                   THEN <<[alg |-> "SHA-1", content |-> software.sha1]>> ELSE <<>>)
               \o (IF Truthy(software.sha256)
                   THEN <<[alg |-> "SHA-256", content |-> software.sha256]>> ELSE <<>>)
               \o (IF Truthy(software.md5)
                   THEN <<[alg |-> "MD5", content |-> software.md5]>> ELSE <<>>)
    IN  IF hashes = <<>> THEN NoHashes ELSE [isNone |-> FALSE, list |-> hashes]

\* the hashes of a file component, built the same way
file_hashes(software) ==
    LET hashes == (IF Truthy(software.sha1)
                   THEN <<[alg |-> "SHA-1", content |-> software.sha1]>> ELSE <<>>)
               \o (IF Truthy(software.sha256)
                   THEN <<[alg |-> "SHA-256", content |-> software.sha256]>> ELSE <<>>)
               \o (IF Truthy(software.md5)
                   THEN <<[alg |-> "MD5", content |-> software.md5]>> ELSE <<>>)
    IN  IF hashes = <<>> THEN NoHashes ELSE [isNone |-> FALSE, list |-> hashes]

container_component(software, fname) ==
    [bom_ref |-> software.UUID,
     name |-> IF ~Truthy(software.name) THEN fname ELSE software.name,
     version |-> software.version,
     supplier |-> supplier_of(software.vendor),
     description |-> software.description,
     hashes |-> container_hashes(software),
     copyright |-> None,
     type |-> CONTAINER]

convert_software_to_cyclonedx_container_components(software) ==
    [k \in 1..Len(software.fileName) |-> container_component(software, software.fileName[k])]

get_fileinfo_metadata(software, field) ==
    LET hits == {k \in 1..Len(software.metadata) :
                    /\ "FileInfo" \in DOMAIN software.metadata[k]
                    /\ field \in DOMAIN software.metadata[k]["FileInfo"]}
    IN  IF hits = {} THEN None
        ELSE software.metadata[CHOOSE k \in hits : \A j \in hits : k <= j]["FileInfo"][field]

\* create_cyclonedx_file returns the component and leaves software changed
normalize_empty(software) ==
    [software EXCEPT !.description = IF @ = <<>> THEN None ELSE @,
                     !.version = IF @ = <<>> THEN None ELSE @]

\* create_cyclonedx_file with the file path as bom_ref
create_cyclonedx_file_path_ref(file_path, software) ==
    LET cr_text == get_fileinfo_metadata(software, "LegalCopyright")
        after == normalize_empty(software)
    IN  [software |-> after,
         component |->
            [bom_ref |-> file_path,
             name |-> file_path,
             version |-> after.version,
             supplier |-> supplier_of(software.vendor),
             description |-> after.description,
             hashes |-> file_hashes(software),
             copyright |-> IF Truthy(cr_text) THEN cr_text ELSE None,
             type |-> FILE]]

create_cyclonedx_file(file_path, software) ==
    LET cr_text == get_fileinfo_metadata(software, "LegalCopyright")
        after == normalize_empty(software)
    IN  [software |-> after,
         component |->
            [bom_ref |-> software.UUID,
             name |-> file_path,
             version |-> after.version,
             supplier |-> supplier_of(software.vendor),
             description |-> after.description,
             hashes |-> file_hashes(software),
             copyright |-> IF Truthy(cr_text) THEN cr_text ELSE None,
             type |-> FILE]]

RECURSIVE files_from_container_paths(_, _, _)
files_from_container_paths(software, k, files) ==
    IF k > Len(software.containerPath) THEN [software |-> software, files |-> files]
    ELSE LET cpath == parts(software.containerPath[k])
         IN  IF Len(cpath) > 1
             THEN LET made == create_cyclonedx_file(join(Tail(cpath)), software)
                  IN  files_from_container_paths(made.software, k + 1,
                          Append(files, <<cpath[1], software.UUID, made.component>>))
             ELSE files_from_container_paths(software, k + 1, files)

RECURSIVE files_from_file_names(_, _, _)
files_from_file_names(software, k, files) ==
    IF k > Len(software.fileName) THEN [software |-> software, files |-> files]
    ELSE LET made == create_cyclonedx_file(software.fileName[k], software)
         IN  files_from_file_names(made.software, k + 1,
                 Append(files, <<None, software.UUID, made.component>>))

convert_software_to_cyclonedx_file_components(software) ==
    LET byPath == files_from_container_paths(software, 1, <<>>)
    IN  IF software.containerPath = <<>>
        THEN files_from_file_names(byPath.software, 1, byPath.files)
        ELSE byPath

\* ---------------------------------------------------------------- write_sbom
Range(s) == {s[k] : k \in 1..Len(s)}

\* record_parents keeping the parent of the first container path
RECURSIVE record_parents_first_wins(_, _, _)
record_parents_first_wins(table, files, k) ==
    IF k > Len(files) THEN table
    ELSE LET parent_uuid == files[k][1]
             ref == files[k][3].bom_ref
         IN  record_parents_first_wins(
                 IF Truthy(parent_uuid) /\ ref \notin DOMAIN table
                 THEN [u \in DOMAIN table \cup {ref} |-> IF u = ref THEN parent_uuid ELSE table[u]]
                 ELSE table,
                 files, k + 1)

RECURSIVE record_parents(_, _, _)
record_parents(table, files, k) ==
    IF k > Len(files) THEN table
    ELSE LET parent_uuid == files[k][1]
             ref == files[k][3].bom_ref
         IN  record_parents(
                 IF Truthy(parent_uuid)
                 THEN [u \in DOMAIN table \cup {ref} |-> IF u = ref THEN parent_uuid ELSE table[u]]
                 ELSE table,
                 files, k + 1)

\* is_container asking for children of any relation
is_container_any_relation(software) ==
    \E k \in 1..Len(sbom.edges) : sbom.edges[k][1] = software.UUID

is_container(software) == get_children(sbom.edges, software.UUID, Contains) # {}

AddSystem ==
    /\ pc = "systems"
    /\ i <= Len(sbom.systems)
    /\ bom_components' = bom_components \cup {convert_system_to_cyclonedx_component(sbom.systems[i])}
    /\ i' = i + 1
    /\ UNCHANGED gha_vars
    /\ UNCHANGED <<sbom, given, pc, bom_dependencies, container_path_relationships, cdx_rels, outfile>>

SystemsDone ==
    /\ pc = "systems"
    /\ i > Len(sbom.systems)
    /\ pc' = "software"
    /\ i' = 1
    /\ UNCHANGED gha_vars
    /\ UNCHANGED <<sbom, given, bom_components, bom_dependencies, container_path_relationships,
                   cdx_rels, outfile>>

AddContainer ==
    /\ pc = "software"
    /\ i <= Len(sbom.software)
    /\ is_container(sbom.software[i])
    /\ bom_components' = bom_components
            \cup Range(convert_software_to_cyclonedx_container_components(sbom.software[i]))
    /\ i' = i + 1
    /\ UNCHANGED gha_vars
    /\ UNCHANGED <<sbom, given, pc, bom_dependencies, container_path_relationships, cdx_rels, outfile>>

AddFiles ==
    /\ pc = "software"
    /\ i <= Len(sbom.software)
    /\ ~is_container(sbom.software[i])
    /\ LET made == convert_software_to_cyclonedx_file_components(sbom.software[i])
       IN  /\ bom_components' = bom_components \cup {f[3] : f \in Range(made.files)}
           /\ container_path_relationships' =
                  record_parents(container_path_relationships, made.files, 1)
           /\ sbom' = [sbom EXCEPT !.software[i] = made.software]
    /\ i' = i + 1
    /\ UNCHANGED gha_vars
    /\ UNCHANGED <<given, pc, bom_dependencies, cdx_rels, outfile>>

SoftwareDone ==
    /\ pc = "software"
    /\ i > Len(sbom.software)
    /\ pc' = "edges"
    /\ i' = 1
    /\ UNCHANGED gha_vars
    /\ UNCHANGED <<sbom, given, bom_components, bom_dependencies, container_path_relationships,
                   cdx_rels, outfile>>

\* skip_edge without the test of the relation
skip_edge_any_relation(table, parent_uuid, child_uuid, rel_type) ==
    /\ child_uuid \in DOMAIN table
    /\ parent_uuid # table[child_uuid]

\* skip_edge skipping when the recorded parent is the edge's parent
skip_edge_same_parent(table, parent_uuid, child_uuid, rel_type) ==
    /\ rel_type = CONTAINS
    /\ child_uuid \in DOMAIN table
    /\ parent_uuid = table[child_uuid]

skip_edge(table, parent_uuid, child_uuid, rel_type) ==
    /\ rel_type = CONTAINS
    /\ child_uuid \in DOMAIN table
    /\ parent_uuid # table[child_uuid]

\* scope_of with DEPENDSON in place of DEPENDS_ON
scope_of_dependson(rel_type) ==
    IF rel_type = CONTAINS THEN Unscoped
    ELSE IF rel_type \in {USES, <<"D","E","P","E","N","D","S","O","N">>, REQUIRES} THEN Runtime
    ELSE Unknown

scope_of(rel_type) ==
    IF rel_type = CONTAINS THEN Unscoped
    ELSE IF rel_type \in {USES, DEPENDS_ON, REQUIRES} THEN Runtime
    ELSE Unknown

\* add_dependency making a new Dependency for the parent at every edge
add_dependency_overwrite(rels, parent_uuid, child_uuid, rel_type) ==
    [u \in DOMAIN rels \cup {parent_uuid} |->
        IF u = parent_uuid
        THEN {[ref |-> child_uuid, scope |-> scope_of(rel_type)]}
        ELSE rels[u]]

add_dependency(rels, parent_uuid, child_uuid, rel_type) ==
    [u \in DOMAIN rels \cup {parent_uuid} |->
        IF u = parent_uuid
        THEN (IF u \in DOMAIN rels THEN rels[u] ELSE {})
                 \cup {[ref |-> child_uuid, scope |-> scope_of(rel_type)]}
        ELSE rels[u]]

\* walk_edge without the upper-casing of the relation
walk_edge_no_upper(table, rels, edge) ==
    IF skip_edge(table, edge[1], edge[2], edge[3]) THEN rels
    ELSE add_dependency(rels, edge[1], edge[2], edge[3])

walk_edge(table, rels, edge) ==
    LET rel_type == upper(edge[3])
    IN  IF skip_edge(table, edge[1], edge[2], rel_type) THEN rels
        ELSE add_dependency(rels, edge[1], edge[2], rel_type)

WalkEdge ==
    /\ pc = "edges"
    /\ i <= Len(sbom.edges)
    /\ cdx_rels' = walk_edge(container_path_relationships, cdx_rels, sbom.edges[i])
    /\ i' = i + 1
    /\ UNCHANGED gha_vars
    /\ UNCHANGED <<sbom, given, pc, bom_components, bom_dependencies,
                   container_path_relationships, outfile>>

EdgesDone ==
    /\ pc = "edges"
    /\ i > Len(sbom.edges)
    /\ pc' = "attach"
    /\ i' = 1
    /\ UNCHANGED gha_vars
    /\ UNCHANGED <<sbom, given, bom_components, bom_dependencies, container_path_relationships,
                   cdx_rels, outfile>>

attach(rels) == {[ref |-> u, dependencies |-> rels[u]] : u \in DOMAIN rels}

AttachDependencies ==
    /\ pc = "attach"
    /\ bom_dependencies' = bom_dependencies \cup attach(cdx_rels)
    /\ pc' = "output"
    /\ UNCHANGED gha_vars
    /\ UNCHANGED <<sbom, given, i, bom_components, container_path_relationships, cdx_rels, outfile>>

output_as_string(components, dependencies) ==
    [bomFormat |-> "CycloneDX", specVersion |-> "1.5",
     tools |-> {"Surfactant"},
     components |-> components,
     dependencies |-> dependencies]

\* WriteOutput writing the document before the dependencies are attached
WriteOutput_early ==
    /\ pc = "attach"
    /\ outfile' = Append(outfile, output_as_string(bom_components, bom_dependencies))
    /\ pc' = "output"
    /\ UNCHANGED gha_vars
    /\ UNCHANGED <<sbom, given, i, bom_components, bom_dependencies,
                   container_path_relationships, cdx_rels>>

WriteOutput ==
    /\ pc = "output"
    /\ outfile' = Append(outfile, output_as_string(bom_components, bom_dependencies))
    /\ pc' = "done"
    /\ UNCHANGED gha_vars
    /\ UNCHANGED <<sbom, given, i, bom_components, bom_dependencies,
                   container_path_relationships, cdx_rels>>

\* write_sbom catches nothing: an exception raised while the components and the
\* dependencies are assembled, or by output_as_string, leaves write_sbom at once
Raise ==
    /\ pc \in {"systems", "software", "edges", "attach", "output"}
    /\ pc' = "raised"
    /\ UNCHANGED gha_vars
    /\ UNCHANGED <<sbom, given, i, bom_components, bom_dependencies,
                   container_path_relationships, cdx_rels, outfile>>

Next ==
    \/ AddSystem
    \/ SystemsDone
    \/ AddContainer
    \/ AddFiles
    \/ SoftwareDone
    \/ WalkEdge
    \/ EdgesDone
    \/ AttachDependencies
    \/ WriteOutput

\* ---------------------------------------------------------------- inputs
S == <<"S">>
A == <<"A">>
B == <<"B">>

SeqsUpTo(X, n) == UNION {[1..k -> X] : k \in 0..n}

Injective(s) == \A j, k \in 1..Len(s) : s[j] = s[k] => j = k

PathStrs ==
    { <<"S","/","x">>,
      <<"B","/","d","/","x">>,
      <<"x">>,
      <<"S","/","/",".","/","x">> }

EdgeUniverse ==
    { <<S, A, Contains>>,
      <<S, A, <<"C","O","N","T","A","I","N","S">> >>,
      <<S, A, <<"D","e","p","e","n","d","s","_","O","n">> >>,
      <<S, B, <<"R","e","q","u","i","r","e","s">> >>,
      <<S, B, Contains>>,
      <<B, A, <<"c","o","n","t","a","i","n","s">> >>,
      <<B, A, <<"U","s","e","s">> >>,
      <<B, A, <<"D","e","p","e","n","d","s","O","n">> >>,
      <<A, B, Contains>>,
      <<A, B, <<"r","E","Q","U","I","R","E","S">> >>,
      <<A, B, <<"B","u","n","d","l","e","s">> >> }

\* graph.edges(keys=True) yields the edges of one parent after the other
GroupedByParent(es) ==
    \A j, k, l \in 1..Len(es) : (j < k /\ k < l /\ es[j][1] = es[l][1]) => es[k][1] = es[j][1]

EdgeLists == {es \in SeqsUpTo(EdgeUniverse, MaxEdges) : Injective(es) /\ GroupedByParent(es)}

PathLists == {ps \in SeqsUpTo(PathStrs, MaxPaths) : Injective(ps)}

NameLists == SeqsUpTo({<<"a">>, <<"b">>}, MaxNames)

TheSystem ==
    [UUID |-> S, officialName |-> <<"W">>, name |-> <<"w">>, vendor |-> << <<"V">> >>,
     description |-> None]

SoftwareB ==
    [UUID |-> B, name |-> None, version |-> <<"2">>, description |-> <<>>,
     vendor |-> <<>>, fileName |-> << <<"b">> >>, containerPath |-> <<>>,
     sha1 |-> None, sha256 |-> None, md5 |-> None, metadata |-> <<>>]

SoftwareA ==
    [UUID |-> A, name |-> None, version |-> <<>>, description |-> <<"t">>,
     vendor |-> << <<"V">> >>, fileName |-> << <<"a">> >>, containerPath |-> <<>>,
     sha1 |-> None, sha256 |-> <<"h">>, md5 |-> None,
     metadata |-> << [FileInfo |-> [LegalCopyright |-> <<"c">>]] >>]

Start(input) ==
    /\ sbom = input
    /\ given = input
    /\ pc = "systems"
    /\ i = 1
    /\ bom_components = {}
    /\ bom_dependencies = {}
    /\ container_path_relationships = <<>>
    /\ cdx_rels = <<>>
    /\ outfile = <<>>
    /\ stored = <<>>
    /\ data_folders = {}
    /\ generated = <<>>
    /\ results = <<>>
    /\ summary = <<>>
    /\ runs = 0

\* graphs: the edges and the container paths of A vary
Init ==
    \E es \in EdgeLists, ps \in PathLists :
        Start([systems |-> <<TheSystem>>,
               software |-> <<[SoftwareA EXCEPT !.containerPath = ps], SoftwareB>>,
               edges |-> es])

Spec == Init /\ [][Next]_vars

\* attributes: the fields of A vary, over a graph in which A is a file or a container
OptStrs(x) == {None, <<>>, x}

AttrEdgeLists == { <<>>, << <<A, B, Contains>> >> }

AttrPathLists == { <<>>, << <<"S","/","x">> >>, << <<"x">> >> }

InitAttrs ==
    \E version \in OptStrs(<<"1">>), description \in OptStrs(<<"t">>),
       sha1 \in OptStrs(<<"h">>), sha256 \in {None, <<"i">>}, md5 \in {None, <<"j">>},
       name \in {None, <<"n">>}, names \in NameLists,
       ps \in AttrPathLists, es \in AttrEdgeLists :
        Start([systems |-> <<TheSystem>>,
               software |-> <<[SoftwareA EXCEPT !.version = version,
                                                !.description = description,
                                                !.sha1 = sha1, !.sha256 = sha256, !.md5 = md5,
                                                !.name = name, !.fileName = names,
                                                !.containerPath = ps],
                              SoftwareB>>,
               edges |-> es])

SpecAttrs == InitAttrs /\ [][Next]_vars

\* exceptions: write_sbom may be left by an exception at any step
InitRaise ==
    \E names \in NameLists, ps \in AttrPathLists, es \in AttrEdgeLists :
        Start([systems |-> <<TheSystem>>,
               software |-> <<[SoftwareA EXCEPT !.fileName = names, !.containerPath = ps],
                              SoftwareB>>,
               edges |-> es])

NextRaise == Next \/ Raise

SpecRaise == InitRaise /\ [][NextRaise]_vars

\* ------------------------------------------------------------------
\* scripts/regressions.py: the regression run of the CI (--gha)
\* ------------------------------------------------------------------

\* the CI runs the model follows
MaxRuns == 2

\* the folders that tests/data may hold
Folders == {"f1", "f2"}

\* the SBOM texts generate_sbom_string may return (one-line texts, "" included)
Sboms == {<<>>, <<"a">>, <<"b">>}

\* traceback.format_exc(): some non-empty text
Traceback == <<"T">>

\* generate_sbom_string for one folder: it returns a text, or raises one of
\* FileNotFoundError, ValueError, RuntimeError (every error of the sbom command
\* is wrapped into a RuntimeError)
Outcomes ==
    {[raised |-> TRUE, sbom |-> <<>>]} \cup {[raised |-> FALSE, sbom |-> t] : t \in Sboms}

\* json.dump / json.load of the folders file: None is written as null, a str as a string
json_value(v) == IF v = None THEN [t |-> "null", s |-> <<>>] ELSE [t |-> "string", s |-> v]

python_value(j) == IF j.t = "null" THEN None ELSE j.s

json_dump(folders) ==
    [f \in DOMAIN folders |-> [sbom |-> json_value(folders[f].sbom),
                               stacktrace |-> json_value(folders[f].stacktrace)]]

json_load(file) ==
    [f \in DOMAIN file |-> [sbom |-> python_value(file[f].sbom),
                            stacktrace |-> python_value(file[f].stacktrace)]]

\* show_diff on one-line texts: the unified diff's two file headers, the hunk
\* header, the removed line and the added line; no lines when the texts are equal
show_diff(text1, text2) ==
    IF text1 = text2 THEN <<>>
    ELSE << <<"-", "-", "-">>, <<"+", "+", "+">>, <<"@", "@">> >>
         \o (IF text1 = <<>> THEN <<>> ELSE << <<"-">> \o text1 >>)
         \o (IF text2 = <<>> THEN <<>> ELSE << <<"+">> \o text2 >>)

\* old_folders.get(folder.name, {"sbom": "", "stacktrace": None})
old_data(old_folders, folder) ==
    IF folder \in DOMAIN old_folders THEN old_folders[folder]
    ELSE [sbom |-> <<>>, stacktrace |-> None]

\* new_data that forgets the stored SBOM when the generation fails
new_data_reset(old, outcome) ==
    IF outcome.raised THEN [sbom |-> <<>>, stacktrace |-> Traceback]
    ELSE [sbom |-> outcome.sbom, stacktrace |-> None]

\* new_data starts as the stored SBOM without stacktrace; the generation
\* replaces the SBOM, or, when it raises, the stacktrace is recorded
new_data(old, outcome) ==
    IF outcome.raised THEN [sbom |-> old.sbom, stacktrace |-> Traceback]
    ELSE [sbom |-> outcome.sbom, stacktrace |-> None]

\* the folder gets an entry in results: a changed non-empty SBOM, else a stacktrace
has_result(old, new) ==
    \/ new.sbom # old.sbom /\ Truthy(new.sbom)
    \/ Truthy(new.stacktrace)

result(old, new) ==
    IF new.sbom # old.sbom /\ Truthy(new.sbom)
    THEN [diff |-> show_diff(old.sbom, new.sbom)]
    ELSE [stacktrace |-> new.stacktrace]

Section(h, body) == [h |-> h, body |-> body]

\* one <details> block of the results section
details(folder_name, res, linked) ==
    [bang |-> "stacktrace" \in DOMAIN res,
     link |-> linked,
     code |-> IF "stacktrace" \in DOMAIN res THEN res.stacktrace ELSE res.diff]

\* test_gha over the folders of tests/data; outcome[f] is what generate_sbom_string
\* does for folder f, linked says that repo, current_run and last_run are given
test_gha(old_folders, folders, outcome, linked) ==
    LET created_folders == folders \ DOMAIN old_folders
        removed_folders == DOMAIN old_folders \ folders
        new_folders == [f \in folders |-> new_data(old_data(old_folders, f), outcome[f])]
        reported == {f \in folders : has_result(old_data(old_folders, f), new_folders[f])}
        res == [f \in reported |-> result(old_data(old_folders, f), new_folders[f])]
        head == (IF created_folders # {} THEN <<Section("New Folders", created_folders)>> ELSE <<>>)
                \o (IF removed_folders # {} THEN <<Section("Removed Folders", removed_folders)>> ELSE <<>>)
        body == IF folders = {} THEN <<Section("No Test Folders Found", {})>>
                ELSE (IF reported = {}
                      THEN <<Section("No SBOM Changes Detected", {})>>
                      ELSE <<Section("SBOM Results",
                                     [f \in reported |-> details(f, res[f], linked)])>>)
                     \o (IF linked THEN <<Section("For commit", {}), Section("Compared against", {})>>
                         ELSE <<>>)
    IN [summary |-> head \o body,
        new_folders |-> new_folders,
        results |-> IF folders = {} THEN <<>> ELSE res]

\* main with --gha: old_folders is read from DIFF_INPUT, which holds what the
\* previous run wrote to DIFF_OUTPUT, and new_folders is written to DIFF_OUTPUT
RunGha(folders, outcome, linked) ==
    /\ runs < MaxRuns
    /\ LET run == test_gha(json_load(stored), folders, outcome, linked)
       IN /\ summary' = run.summary
          /\ results' = run.results
          /\ stored' = json_dump(run.new_folders)
    /\ data_folders' = folders
    /\ generated' = outcome
    /\ runs' = runs + 1
    /\ UNCHANGED writer_vars

InitGha ==
    /\ sbom = [systems |-> <<>>, software |-> <<>>, edges |-> <<>>]
    /\ given = sbom
    /\ pc = "idle"
    /\ i = 1
    /\ bom_components = {}
    /\ bom_dependencies = {}
    /\ container_path_relationships = <<>>
    /\ cdx_rels = <<>>
    /\ outfile = <<>>
    /\ stored = <<>>
    /\ data_folders = {}
    /\ generated = <<>>
    /\ results = <<>>
    /\ summary = <<>>
    /\ runs = 0

NextGha ==
    \E folders \in SUBSET Folders, linked \in BOOLEAN :
        \E outcome \in [folders -> Outcomes] : RunGha(folders, outcome, linked)

SpecGha == InitGha /\ [][NextGha]_vars

\* ---------------------------------------------------------------- properties
Finished == pc = "done"

\* edge k of the graph has been walked
Walked(k) == pc \in {"attach", "output", "done"} \/ (pc = "edges" /\ k < i)

\* the step that walks edge i
WalksEdge == pc = "edges" /\ i <= Len(sbom.edges) /\ i' = i + 1

ContainsLabel == upper(<<"C","o","n","t","a","i","n","s">>)

RequiresLabel == upper(<<"R","e","q","u","i","r","e","s">>)

DependsOnLabel == upper(<<"D","e","p","e","n","d","s","O","n">>)

RuntimeLabelsAsStated ==
    {upper(<<"U","s","e","s">>),
     upper(<<"D","e","p","e","n","d","s","O","n">>),
     upper(<<"R","e","q","u","i","r","e","s">>)}

RuntimeLabels ==
    {upper(<<"U","s","e","s">>),
     upper(<<"D","e","p","e","n","d","s","_","O","n">>),
     upper(<<"R","e","q","u","i","r","e","s">>)}

HasContainsChild(uuid) ==
    \E k \in 1..Len(given.edges) :
        given.edges[k][1] = uuid /\ upper(given.edges[k][3]) = ContainsLabel

ProjectedAs(uuid, type) == \E c \in bom_components : c.bom_ref = uuid /\ c.type = type

Children(rels, parent_uuid) == IF parent_uuid \in DOMAIN rels THEN rels[parent_uuid] ELSE {}

Dep(child_uuid, scope) == [ref |-> child_uuid, scope |-> scope]

NodeIds == {given.systems[k].UUID : k \in 1..Len(given.systems)}
               \cup {given.software[k].UUID : k \in 1..Len(given.software)}

EdgeEndpoints == {given.edges[k][1] : k \in 1..Len(given.edges)}
                     \cup {given.edges[k][2] : k \in 1..Len(given.edges)}

\* the lookup table records the edge's child with a parent other than the edge's parent
Suppressed(edge) ==
    /\ edge[2] \in DOMAIN container_path_relationships
    /\ container_path_relationships[edge[2]] # edge[1]

\* software k is a leaf whose only container path has several segments, the first
\* being parent_uuid, and the graph has a Contains edge parent_uuid -> software k
DedupCase(k, parent_uuid) ==
    LET software == given.software[k]
    IN  /\ ~HasContainsChild(software.UUID)
        /\ Len(software.containerPath) = 1
        /\ Len(parts(software.containerPath[1])) > 1
        /\ parts(software.containerPath[1])[1] = parent_uuid
        /\ \E e \in 1..Len(given.edges) :
              /\ given.edges[e][1] = parent_uuid
              /\ given.edges[e][2] = software.UUID
              /\ upper(given.edges[e][3]) = ContainsLabel

\* every edge parent_uuid -> child_uuid of the graph is a Contains edge
OnlyContains(parent_uuid, child_uuid) ==
    \A e \in 1..Len(given.edges) :
        (given.edges[e][1] = parent_uuid /\ given.edges[e][2] = child_uuid)
            => upper(given.edges[e][3]) = ContainsLabel

\* a hash is set when it is neither None nor the empty string
IsSet(hash) == hash # None /\ hash # <<>>

SetHashes(software) ==
    {[alg |-> "SHA-1", content |-> software.sha1] : x \in {y \in {1} : IsSet(software.sha1)}}
        \cup {[alg |-> "SHA-256", content |-> software.sha256] :
                  x \in {y \in {1} : IsSet(software.sha256)}}
        \cup {[alg |-> "MD5", content |-> software.md5] : x \in {y \in {1} : IsSet(software.md5)}}

\* the path of a container path relative to its container
RelativePath(cpathstr) ==
    IF Len(parts(cpathstr)) > 1 THEN join(Tail(parts(cpathstr))) ELSE join(parts(cpathstr))

FileComponents(uuid) == {c \in bom_components : c.bom_ref = uuid /\ c.type = FILE}

\* the edges of the graph that leave parent_uuid and are not suppressed
KeptEdges(parent_uuid) ==
    {k \in 1..Len(given.edges) :
        /\ given.edges[k][1] = parent_uuid
        /\ ~(upper(given.edges[k][3]) = ContainsLabel /\ Suppressed(given.edges[k]))}

ScopeFor(label) ==
    IF upper(label) = ContainsLabel THEN Unscoped
    ELSE IF upper(label) \in RuntimeLabels THEN Runtime
    ELSE Unknown

\* the first segments of the container paths of software that have several segments
PathParents(software) ==
    LET heads == [k \in 1..Len(software.containerPath) |->
                     IF Len(parts(software.containerPath[k])) > 1
                     THEN parts(software.containerPath[k])[1] ELSE None]
    IN  SelectSeq(heads, LAMBDA h : h # None)

\* software k is a leaf with several multi-segment container paths of differing first segments
TieBreakCase(k) ==
    /\ ~HasContainsChild(given.software[k].UUID)
    /\ Cardinality(Range(PathParents(given.software[k]))) > 1

ComponentRefs(doc) == {c.bom_ref : c \in doc.components}

\* C1: a Software node with a Contains-child is never projected as a file-type
\* component, and one with no Contains-child never as a container-type component.
C1_ContainerFilePartition ==
    \A k \in 1..Len(given.software) :
        LET uuid == given.software[k].UUID
        IN  /\ HasContainsChild(uuid) => ~ProjectedAs(uuid, FILE)
            /\ ~HasContainsChild(uuid) => ~ProjectedAs(uuid, CONTAINER)

C1_Witness ==
    /\ Finished
    /\ HasContainsChild(A) /\ ProjectedAs(A, CONTAINER)
    /\ ~HasContainsChild(B) /\ ProjectedAs(B, FILE)

\* C2: walking an edge labelled Requires (in any letter case) leaves a runtime-scoped
\* dependency from its parent to its child; walking an edge labelled Contains (in
\* any letter case) adds no runtime-scoped dependency.
C2_ScopeMapping ==
    [][WalksEdge =>
        LET edge == sbom.edges[i]
            label == upper(edge[3])
        IN  /\ label = RequiresLabel
                  => Dep(edge[2], Runtime) \in Children(cdx_rels', edge[1])
            /\ label = ContainsLabel
                  => \A u \in DOMAIN cdx_rels' :
                        \A d \in cdx_rels'[u] \ Children(cdx_rels, u) : d.scope # Runtime]_vars

C2_Witness ==
    /\ Finished
    /\ \E k \in 1..Len(sbom.edges) :
          /\ sbom.edges[k][3] = <<"r","E","Q","U","I","R","E","S">>
          /\ Dep(sbom.edges[k][2], Runtime) \in Children(cdx_rels, sbom.edges[k][1])
    /\ \E k \in 1..Len(sbom.edges) :
          /\ upper(sbom.edges[k][3]) = ContainsLabel
          /\ Dep(sbom.edges[k][2], Unscoped) \in Children(cdx_rels, sbom.edges[k][1])

\* C3 as stated: every walked edge whose label is, case-insensitively, Uses,
\* DependsOn or Requires has left a runtime-scoped dependency from parent to child.
C3_RuntimeKindsAsStated ==
    \A k \in 1..Len(sbom.edges) :
        (Walked(k) /\ upper(sbom.edges[k][3]) \in RuntimeLabelsAsStated)
            => Dep(sbom.edges[k][2], Runtime) \in Children(cdx_rels, sbom.edges[k][1])

\* C3 amended: every walked edge whose label is, case-insensitively, Uses,
\* Depends_On or Requires has left a runtime-scoped dependency from parent to
\* child; an edge labelled DependsOn has left an unknown-scoped one.
C3_RuntimeKinds ==
    \A k \in 1..Len(sbom.edges) :
        Walked(k) =>
            LET edge == sbom.edges[k]
                label == upper(edge[3])
            IN  /\ label \in RuntimeLabels
                      => Dep(edge[2], Runtime) \in Children(cdx_rels, edge[1])
                /\ label = DependsOnLabel
                      => Dep(edge[2], Unknown) \in Children(cdx_rels, edge[1])

C3_Witness ==
    /\ Finished
    /\ \E k \in 1..Len(sbom.edges) :
          /\ sbom.edges[k][3] = <<"D","e","p","e","n","d","s","_","O","n">>
          /\ Dep(sbom.edges[k][2], Runtime) \in Children(cdx_rels, sbom.edges[k][1])
    /\ \E k \in 1..Len(sbom.edges) :
          /\ sbom.edges[k][3] = <<"D","e","p","e","n","d","s","O","n">>
          /\ Dep(sbom.edges[k][2], Unknown) \in Children(cdx_rels, sbom.edges[k][1])

\* C4: walking a Contains edge (parent, child) changes no dependency record exactly
\* when the lookup table records the child with a parent other than the edge's
\* parent, and otherwise leaves an unscoped dependency from parent to child;
\* walking an edge of any other label always leaves a dependency from parent to child.
C4_ContainsSuppression ==
    [][WalksEdge =>
        LET edge == sbom.edges[i]
        IN  IF upper(edge[3]) = ContainsLabel
            THEN IF Suppressed(edge)
                 THEN cdx_rels' = cdx_rels
                 ELSE Dep(edge[2], Unscoped) \in Children(cdx_rels', edge[1])
            ELSE \E d \in Children(cdx_rels', edge[1]) :
                    d.ref = edge[2] /\ d.scope \in {Runtime, Unknown}]_vars

C4_Witness ==
    /\ Finished
    /\ \E k \in 1..Len(sbom.edges) :
          /\ upper(sbom.edges[k][3]) = ContainsLabel
          /\ Suppressed(sbom.edges[k])
          /\ Dep(sbom.edges[k][2], Unscoped) \notin Children(cdx_rels, sbom.edges[k][1])
    /\ \E k \in 1..Len(sbom.edges) :
          /\ upper(sbom.edges[k][3]) # ContainsLabel
          /\ Suppressed(sbom.edges[k])
          /\ sbom.edges[k][1] \in DOMAIN cdx_rels

C6_IdentifierIntegrity ==
    /\ \A c \in bom_components : c.bom_ref \in NodeIds
    /\ \A d \in bom_dependencies :
          /\ d.ref \in EdgeEndpoints
          /\ \A c \in d.dependencies : c.ref \in EdgeEndpoints
    /\ \A k \in 1..Len(outfile) :
          /\ \A c \in outfile[k].components : c.bom_ref \in NodeIds
          /\ \A d \in outfile[k].dependencies :
                /\ d.ref \in EdgeEndpoints
                /\ \A c \in d.dependencies : c.ref \in EdgeEndpoints

C6_Witness ==
    /\ Finished
    /\ ProjectedAs(S, CONTAINER) /\ ProjectedAs(A, FILE) /\ ProjectedAs(B, CONTAINER)
    /\ \E d \in outfile[1].dependencies : d.ref = B /\ Dep(A, Unscoped) \in d.dependencies

\* C7: after write_sbom every attribute of every System and Software node and every
\* edge of the graph has the value it had before the call.
C7_InputReadOnly == sbom = given

\* C8: a component projected from a Software node has no hash list when none of
\* SHA-1, SHA-256 and MD5 is set, and otherwise a hash list with exactly one entry
\* per hash that is set.
C8_HashOmission ==
    \A k \in 1..Len(given.software) :
        \A c \in {x \in bom_components : x.bom_ref = given.software[k].UUID} :
            IF SetHashes(given.software[k]) = {}
            THEN c.hashes.isNone /\ c.hashes.list = <<>>
            ELSE /\ ~c.hashes.isNone
                 /\ Len(c.hashes.list) = Cardinality(SetHashes(given.software[k]))
                 /\ Range(c.hashes.list) = SetHashes(given.software[k])

C8_Witness ==
    /\ Finished
    /\ given.software[1].sha1 = <<>>
    /\ \E c \in bom_components :
          c.bom_ref = A /\ c.type = CONTAINER /\ ~c.hashes.isNone /\ Len(c.hashes.list) = 2
    /\ \E c \in bom_components : c.bom_ref = B /\ c.type = FILE /\ c.hashes.isNone

\* C9: every component projected from a Software node whose version (description)
\* is the empty string carries the version (description) as absent, whether the
\* component is container-type or file-type.
C9_EmptyStringNormalisation ==
    \A k \in 1..Len(given.software) :
        \A c \in {x \in bom_components : x.bom_ref = given.software[k].UUID} :
            /\ given.software[k].version = <<>> => c.version = None
            /\ given.software[k].description = <<>> => c.description = None

\* C10: a Software node that is never a Contains parent is projected as one
\* file-type component per distinct container-relative path of its containerPath,
\* or one per file-name alias when it has no container path; with a non-empty
\* containerPath it is projected as at least one file component.
C10_LeafProjectionCount ==
    Finished =>
        \A k \in 1..Len(given.software) :
            LET software == given.software[k]
            IN  ~HasContainsChild(software.UUID) =>
                    IF software.containerPath # <<>>
                    THEN /\ Cardinality(FileComponents(software.UUID)) =
                                Cardinality({RelativePath(p) : p \in Range(software.containerPath)})
                         /\ FileComponents(software.UUID) # {}
                    ELSE Cardinality(FileComponents(software.UUID)) =
                             Cardinality(Range(software.fileName))

\* C11: the output holds at most one dependency record per parent identifier, and
\* the children of that record are exactly the children of the non-skipped edges
\* leaving that parent, whatever their relation labels; a parent has a record
\* exactly when one of its edges is not skipped.
C11_DependencyGrouping ==
    Finished =>
        \A parent_uuid \in NodeIds :
            LET records == {d \in outfile[1].dependencies : d.ref = parent_uuid}
            IN  /\ Cardinality(records) <= 1
                /\ (records # {}) = (KeptEdges(parent_uuid) # {})
                /\ \A d \in records :
                      d.dependencies =
                          {Dep(given.edges[k][2], ScopeFor(given.edges[k][3])) :
                               k \in KeptEdges(parent_uuid)}

C11_Witness ==
    /\ Finished
    /\ \E d \in outfile[1].dependencies :
          /\ d.ref = S
          /\ Cardinality({c.ref : c \in d.dependencies}) = 2
          /\ Cardinality({c.scope : c \in d.dependencies}) = 2

\* C13: when every edge endpoint is a System or Software node, every identifier
\* that is a dependency ref of the output, of a record or of a child in it, is the
\* bom_ref of at least one component of the output.
C13_CrossReferenceClosure ==
    (Finished /\ EdgeEndpoints \subseteq NodeIds) =>
        \A d \in outfile[1].dependencies :
            /\ d.ref \in ComponentRefs(outfile[1])
            /\ \A c \in d.dependencies : c.ref \in ComponentRefs(outfile[1])

\* C14: for a leaf Software X with several multi-segment container paths whose first
\* segments differ, the lookup table records for X the first segment of the last
\* such path; a Contains edge into X has left X as a structural child of its
\* parent exactly when that parent is the recorded one, so that X is a structural
\* child in no record when no Contains edge comes from the recorded parent.
C14_ParentTieBreak ==
    Finished =>
        \A k \in 1..Len(given.software) :
            TieBreakCase(k) =>
                LET uuid == given.software[k].UUID
                    heads == PathParents(given.software[k])
                    recorded == heads[Len(heads)]
                IN  /\ uuid \in DOMAIN container_path_relationships
                    /\ container_path_relationships[uuid] = recorded
                    /\ \A e \in 1..Len(given.edges) :
                          (given.edges[e][2] = uuid /\ upper(given.edges[e][3]) = ContainsLabel)
                              => (\E d \in outfile[1].dependencies :
                                      d.ref = given.edges[e][1] /\ Dep(uuid, Unscoped) \in d.dependencies)
                                 = (given.edges[e][1] = recorded)
                    /\ (\A e \in 1..Len(given.edges) :
                            ~(/\ given.edges[e][1] = recorded
                              /\ given.edges[e][2] = uuid
                              /\ upper(given.edges[e][3]) = ContainsLabel))
                          => \A d \in outfile[1].dependencies : Dep(uuid, Unscoped) \notin d.dependencies

C14_Witness ==
    /\ Finished
    /\ TieBreakCase(1)
    /\ container_path_relationships[A] = B
    /\ \E e \in 1..Len(given.edges) :
          given.edges[e][1] = S /\ given.edges[e][2] = A /\ upper(given.edges[e][3]) = ContainsLabel
    /\ \E d \in outfile[1].dependencies : d.ref = B /\ Dep(A, Unscoped) \in d.dependencies

\* C12: write_sbom writes to outfile at most once, as its last step, the document
\* of all assembled components and dependencies; when an exception leaves
\* write_sbom, nothing has been written.
C12_AllOrNothing ==
    /\ Len(outfile) <= 1
    /\ outfile # <<>> =>
          /\ pc = "done"
          /\ outfile[1].components = bom_components
          /\ outfile[1].dependencies = attach(cdx_rels)
    /\ pc = "raised" => outfile = <<>>

C12_Witness == pc = "raised" /\ bom_components # {} /\ bom_dependencies # {} /\ outfile = <<>>

\* helpers of C15: what the summary of the last run says
SaysNoChanges == \E k \in 1..Len(summary) : summary[k].h = "No SBOM Changes Detected"

ReportedFolders ==
    UNION {DOMAIN summary[k].body : k \in {n \in 1..Len(summary) : summary[n].h = "SBOM Results"}}

ReportedDetails(f) ==
    summary[CHOOSE k \in 1..Len(summary) : summary[k].h = "SBOM Results"].body[f]

ReportedWithDiff(f) ==
    /\ f \in DOMAIN results /\ "diff" \in DOMAIN results[f]
    /\ f \in ReportedFolders /\ ~ReportedDetails(f).bang
    /\ ReportedDetails(f).code = results[f].diff

ReportedWithStacktrace(f) ==
    /\ f \in DOMAIN results /\ "stacktrace" \in DOMAIN results[f]
    /\ f \in ReportedFolders /\ ReportedDetails(f).bang
    /\ ReportedDetails(f).code = results[f].stacktrace

StoredSbom(file, f) == IF f \in DOMAIN file THEN python_value(file[f].sbom) ELSE <<>>

\* a CI run: stored is what the previous run left, the primed variables are this run's
CarryOver ==
    /\ \A f \in data_folders' : f \in DOMAIN stored'
    /\ \A f \in data_folders' :
          generated'[f].raised =>
              /\ python_value(stored'[f].sbom) = StoredSbom(stored, f)
              /\ python_value(stored'[f].stacktrace) # None
              /\ ReportedWithStacktrace(f)'
              /\ ReportedDetails(f)'.code = python_value(stored'[f].stacktrace)
    /\ \A f \in Folders :
          (f \in ReportedFolders' /\ ~ReportedDetails(f)'.bang) <=>
              /\ f \in data_folders'
              /\ ~generated'[f].raised
              /\ generated'[f].sbom # <<>>
              /\ generated'[f].sbom # StoredSbom(stored, f)
    /\ \A f \in ReportedFolders' : ReportedWithDiff(f)' \/ ReportedWithStacktrace(f)'

\* C15 as stated: in every CI run new_folders has an entry for every data folder;
\* a folder whose generation fails keeps the SBOM the previous run stored, gets a
\* non-null stacktrace and is reported with it; a folder is reported with a diff
\* exactly when its new SBOM is non-empty and differs from the stored one; and the
\* summary says no changes were detected exactly when no folder is reported.
C15_CarryOverAsStated ==
    [][runs' = runs + 1 => CarryOver /\ (SaysNoChanges' <=> ReportedFolders' = {})]_vars

\* C15 amended: as above, but the summary says no changes were detected exactly
\* when there is at least one data folder and no folder is reported; without data
\* folders it says that no test folders were found.
C15_CarryOver ==
    [][runs' = runs + 1 =>
          /\ CarryOver
          /\ SaysNoChanges' <=> (data_folders' # {} /\ ReportedFolders' = {})
          /\ data_folders' = {} =>
                \E k \in 1..Len(summary') : summary'[k].h = "No Test Folders Found"]_vars

C15_Witness ==
    /\ runs = 2
    /\ \E f \in data_folders :
          /\ generated[f].raised
          /\ python_value(stored[f].sbom) # <<>>
          /\ ReportedWithStacktrace(f)
    /\ \E f \in data_folders : ReportedWithDiff(f)

====
